---- MODULE Spec2Model ----
(***************************************************************************)
(* A model of baroncs.ChargeState (src/baroncs/charge_state.py): the       *)
(* instance fields, the two public methods charge_state_distribution and   *)
(* dataframe, and the properties mean_charge_state, std_charge_state and   *)
(* beta (getter and setter).                                               *)
(*                                                                         *)
(* Python floats are modelled in fixed point: a real x is the integer      *)
(* x * Scale, truncated.  Python values carry their type, because the code *)
(* dispatches on it (isinstance, "is None").                               *)
(***************************************************************************)
EXTENDS Integers, Sequences, FiniteSets, TLC

\* ------------------------------------------------------------------------
\* Fixed-point arithmetic (numpy / float operations used by the code)
\* ------------------------------------------------------------------------

\* One unit of the fixed-point representation: x is stored as x * Scale.
Scale == 100 * 100

Abs(x) == IF x < 0 THEN -x ELSE x

MulNN(a, b) ==
    LET ah == a \div Scale
        al == a % Scale
        bh == b \div Scale
        bl == b % Scale
    IN  ah * bh * Scale + ah * bl + al * bh + (al * bl) \div Scale

\* a * b
Mul(a, b) ==
    IF (a < 0) # (b < 0) THEN -MulNN(Abs(a), Abs(b)) ELSE MulNN(Abs(a), Abs(b))

DivNN(a, b) ==
    IF b > 20 * Scale
    THEN (a \div b) * Scale + ((a % b) * 100) \div (b \div 100)
    ELSE (a \div b) * Scale + ((a % b) * Scale) \div b

\* a / b, for b # 0
Div(a, b) ==
    IF (a < 0) # (b < 0) THEN -DivNN(Abs(a), Abs(b)) ELSE DivNN(Abs(a), Abs(b))

RECURSIVE ISqrtB(_, _, _)
\* the largest r in lo..hi-1 with r*r <= n, by bisection
ISqrtB(n, lo, hi) ==
    IF hi - lo <= 1 THEN lo
    ELSE LET mid == (lo + hi) \div 2
         IN  IF mid * mid <= n THEN ISqrtB(n, mid, hi) ELSE ISqrtB(n, lo, mid)

ISqrt(n) == ISqrtB(n, 0, 46341)

\* np.sqrt(x), for x >= 0
Sqrt(x) == IF x < 20 * Scale THEN ISqrt(x * Scale) ELSE ISqrt(x) * 100

RECURSIVE ExpNegInt(_)
\* exp(-k) for a natural number k
ExpNegInt(k) ==
    IF k = 0 THEN Scale
    ELSE IF k > 10 THEN 0
    ELSE (3679 * ExpNegInt(k - 1)) \div Scale

RECURSIVE ExpSeries(_, _, _)
\* the Taylor series of exp(-r) from its n-th term (term = r^n / n!) on
ExpSeries(r, n, term) ==
    IF term = 0 \/ n > 12 THEN 0
    ELSE (IF n % 2 = 0 THEN term ELSE -term)
         + ExpSeries(r, n + 1, (term * r) \div ((n + 1) * Scale))

\* exp(-x), for x >= 0
ExpNeg(x) == Mul(ExpNegInt(x \div Scale), ExpSeries(x % Scale, 0, Scale))

\* np.exp(y)
Exp(y) ==
    IF y <= 0 THEN ExpNeg(-y)
    ELSE IF ExpNeg(y) = 0 THEN 0 ELSE Div(Scale, ExpNeg(y))

RECURSIVE LnSeries(_, _, _)
\* u + u^3/3 + u^5/5 + ... from the term u^n on
LnSeries(u, n, pw) ==
    IF pw = 0 \/ n > 15 THEN 0
    ELSE pw \div n + LnSeries(u, n + 2, Mul(Mul(pw, u), u))

RECURSIVE Ln(_)
\* the natural logarithm, for x > 0: ln x = k ln 2 + ln m with 1 <= m < 2
Ln(x) ==
    IF x >= 2 * Scale THEN 6931 + Ln(x \div 2)
    ELSE IF x < Scale THEN Ln(x * 2) - 6931
    ELSE LET u == Div(x - Scale, x + Scale)
         IN  2 * LnSeries(u, 1, u)

\* x ** p for a real exponent p, x >= 0
Pow(x, p) == IF x = 0 THEN 0 ELSE Exp(Mul(p, Ln(x)))

\* round(x): Python rounds a float to the nearest integer, ties to even
Round(x) ==
    LET q == x \div Scale
        r == x % Scale
    IN  IF 2 * r < Scale THEN q
        ELSE IF 2 * r > Scale THEN q + 1
        ELSE IF q % 2 = 0 THEN q ELSE q + 1

\* ------------------------------------------------------------------------
\* Python values
\* ------------------------------------------------------------------------

None == [t |-> "None"]
PyFloat(x) == [t |-> "float", v |-> x]
PyInt(n) == [t |-> "int", v |-> n]
PyStr(s) == [t |-> "str", v |-> s]
PyTuple(items) == [t |-> "tuple", v |-> items]
\* a pandas Series / numpy array of numbers
PySeries(items) == [t |-> "series", v |-> items]

IsNumber(x) == x.t \in {"float", "int"}

\* the fixed-point value of a Python number
Num(x) == IF x.t = "int" THEN x.v * Scale ELSE x.v

\* how a call ends
Return(v) == [kind |-> "return", value |-> v]
Raise(exc, msg) == [kind |-> "raise", exc |-> exc, msg |-> msg]

MsgUseFirst == "Use charge_state_distribution() first"
MsgUseFirstOrSetBeta == "Use charge_state_distribution() first or set beta"
MsgBetaSetter ==
    "For the beta setter, provide a tuple of (energy, e0) or a float for beta"
MsgProvideBoth ==
    "Provide both atomic_nr and c_factor or use charge_state_distribution() first"

\* ------------------------------------------------------------------------
\* State: the fields of one ChargeState instance, and the calls made on it
\* ------------------------------------------------------------------------

\* history holds the two most recent calls (the older one first), ncalls
\* counts the calls made so far
VARIABLES atomic_nr, energy, c_factor, e0, _beta, history, ncalls

fields == <<atomic_nr, energy, c_factor, e0, _beta>>
vars == <<atomic_nr, energy, c_factor, e0, _beta, history, ncalls>>

\* the instance as one value
Self ==
    [atomic_nr |-> atomic_nr, energy |-> energy, c_factor |-> c_factor,
     e0 |-> e0, _beta |-> _beta]

\* the class attributes of a new instance (all None), __init__ does nothing
Fresh ==
    [atomic_nr |-> None, energy |-> None, c_factor |-> None,
     e0 |-> None, _beta |-> None]

\* ------------------------------------------------------------------------
\* The beta property
\* ------------------------------------------------------------------------

\* ChargeState.beta (getter)
beta_get(obj) ==
    IF obj._beta.t = "float"
    THEN Return(obj._beta)
    ELSE Raise("ValueError", MsgUseFirstOrSetBeta)

\* np.sqrt(1 - (1 + energy / e0) ** (-2)), the outcome of evaluating it on
\* Python numbers energy >= 0, e0 >= 0
BetaFromEnergy(en, ez) ==
    IF ~(IsNumber(en) /\ IsNumber(ez))
    THEN Raise("TypeError", "unsupported operand type(s)")
    ELSE IF Num(ez) = 0
    THEN Raise("ZeroDivisionError", "division by zero")
    ELSE LET g == Scale + Div(Num(en), Num(ez))
         IN  Return(PyFloat(Sqrt(Scale - Div(Scale, Mul(g, g)))))

\* ChargeState.beta (setter): the instance after the assignment and how the
\* assignment ends
beta_set(obj, value) ==
    IF value.t = "float"
    THEN [obj |-> [obj EXCEPT !._beta = value], result |-> Return(None)]
    ELSE IF value.t = "tuple"
    THEN IF Len(value.v) # 2
         THEN [obj |-> obj,
               result |-> Raise("ValueError", "wrong number of values to unpack")]
         ELSE LET o1 == [obj EXCEPT !.energy = value.v[1], !.e0 = value.v[2]]
                  b == BetaFromEnergy(o1.energy, o1.e0)
              IN  IF b.kind = "raise"
                  THEN [obj |-> o1, result |-> b]
                  ELSE [obj |-> [o1 EXCEPT !._beta = b.value],
                        result |-> Return(None)]
    ELSE [obj |-> obj, result |-> Raise("ValueError", MsgBetaSetter)]

\* ------------------------------------------------------------------------
\* Mean charge and standard deviation
\* ------------------------------------------------------------------------

\* Equation 1 for one atomic number:
\* Z * (c - np.exp(-83.28 * (beta / (Z ** 0.447))))
EqOne(Z, c, b) ==
    Mul(Z, c - Exp(Mul(-832800, Div(b, Pow(Z, 4470)))))

\* ChargeState.__mean_charge_state_p(atomic_nr, c_factor)
mean_charge_state_p(obj, atomic_nr_arg, c_factor_arg) ==
    IF atomic_nr_arg = None /\ obj.atomic_nr = None
    THEN \* self.beta is read first, then None ** 0.447 is evaluated
         LET b == beta_get(obj)
         IN  IF b.kind = "raise" THEN b
             ELSE Raise("TypeError", "unsupported operand type(s)")
    ELSE IF atomic_nr_arg # None /\ c_factor_arg # None
    THEN LET b == beta_get(obj)
         IN  IF b.kind = "raise" THEN b
             ELSE Return(PySeries(
                 [i \in 1..Len(atomic_nr_arg.v) |->
                     EqOne(atomic_nr_arg.v[i] * Scale, Num(c_factor_arg),
                           b.value.v)]))
    ELSE Raise("ValueError", MsgProvideBoth)

\* the factor of equation 3:
\* 1 - np.exp(-12.905 + 0.2124 * Z - 0.00122 * Z**2)
EqThreeFactor(Z) ==
    Scale - Exp(-129050 + Mul(2124, Z) - Mul(12200, Mul(Z, Z)) \div 1000)

\* ChargeState.mean_charge_state (property)
mean_charge_state(obj) ==
    IF obj.atomic_nr = None
    THEN Raise("ValueError", MsgUseFirst)
    ELSE LET mean_charge == mean_charge_state_p(obj, None, None)
         IN  IF mean_charge.kind = "raise" THEN mean_charge
             ELSE IF Num(obj.atomic_nr) >= 54 * Scale
             THEN Return(PyFloat(Mul(mean_charge.value.v,
                                     EqThreeFactor(Num(obj.atomic_nr)))))
             ELSE mean_charge

\* equation 4: np.sqrt(m * (0.07535 + 0.19 * y - 0.2654 * y**2)), y = m / Z
\* (0.07535 is 753 in fixed point)
EqFour(m, Z) ==
    LET y == Div(m, Z)
    IN  Sqrt(Mul(m, 753 + Mul(1900, y) - Mul(2654, Mul(y, y))))

\* equation 2: 0.5 * np.sqrt(m * (1 - (m / Z) ** 1.67))
EqTwo(m, Z) ==
    Mul(5000, Sqrt(Mul(m, Scale - Pow(Div(m, Z), 16700))))

\* ChargeState.std_charge_state (property)
std_charge_state(obj) ==
    IF obj.atomic_nr = None
    THEN Raise("ValueError", MsgUseFirst)
    ELSE LET mean_charge == mean_charge_state_p(obj, None, None)
         IN  IF mean_charge.kind = "raise" THEN mean_charge
             ELSE IF Num(obj.atomic_nr) >= 54 * Scale
             THEN Return(PyFloat(EqFour(mean_charge.value.v,
                                        Num(obj.atomic_nr))))
             ELSE Return(PyFloat(EqTwo(mean_charge.value.v,
                                       Num(obj.atomic_nr))))

\* ------------------------------------------------------------------------
\* charge_state_distribution
\* ------------------------------------------------------------------------

\* np.arange(a, b): the integers a, a+1, ..., b-1
Arange(a, b) == [i \in 1..(IF b > a THEN b - a ELSE 0) |-> a + i - 1]

\* the charge axis of lines 32-38
ChargeX(mean_int, dist_onesided_len) ==
    IF dist_onesided_len > mean_int
    THEN Arange(0, 2 * mean_int + 1)
    ELSE Arange(mean_int - dist_onesided_len, mean_int + dist_onesided_len + 1)

\* 1 / (std * np.sqrt(2 * np.pi)) * np.exp(-0.5 * ((x - mean) / std) ** 2)
Gauss(x, mean, std) ==
    LET z == Div(x * Scale - mean, std)
    IN  Mul(Div(Scale, Mul(std, Sqrt(Mul(2 * Scale, 31416)))),
            Exp(Mul(-5000, Mul(z, z))))

\* lines 29-45: the properties read on `o`, the pair (charge_x, charge_y)
distribution_body(o, dist_onesided_len) ==
    LET mean_charge == mean_charge_state(o)
        std_charge == std_charge_state(o)
    IN  IF mean_charge.kind = "raise" THEN mean_charge
        ELSE IF std_charge.kind = "raise" THEN std_charge
        ELSE LET mean_int == Round(mean_charge.value.v)
                 charge_x == ChargeX(mean_int, dist_onesided_len)
                 charge_y == [i \in 1..Len(charge_x) |->
                                 Gauss(charge_x[i], mean_charge.value.v,
                                       std_charge.value.v)]
             IN  Return(PyTuple(<<PySeries(charge_x), PySeries(charge_y)>>))

\* the method with lines 24-27 moved below line 30: the properties are read
\* before the arguments are stored
distribution_stores_late(obj, Z, en, c, ez, dist_onesided_len) ==
    [obj |-> [obj EXCEPT !.atomic_nr = Z, !.energy = en,
                         !.c_factor = c, !.e0 = ez],
     result |-> distribution_body(obj, dist_onesided_len)]

\* ChargeState.charge_state_distribution: the instance after the call and
\* how the call ends
charge_state_distribution(obj, Z, en, c, ez, dist_onesided_len) ==
    LET o1 == [obj EXCEPT !.atomic_nr = Z, !.energy = en,
                          !.c_factor = c, !.e0 = ez]
    IN  [obj |-> o1, result |-> distribution_body(o1, dist_onesided_len)]

\* ------------------------------------------------------------------------
\* dataframe
\* ------------------------------------------------------------------------

\* table/elements.csv: the rows used here, in the file's order
ReferenceTable ==
    << [AtomicNumber |-> 53, Symbol |-> "I", CommonestIsotope |-> 127],
       [AtomicNumber |-> 54, Symbol |-> "Xe", CommonestIsotope |-> 132],
       [AtomicNumber |-> 82, Symbol |-> "Pb", CommonestIsotope |-> 208] >>

\* lambda x: int(x / 8) if int(x / 8) * 8 == x else int(x / 8) + 1
NearestQ(x) == IF (x \div 8) * 8 = x THEN x \div 8 ELSE x \div 8 + 1

\* lines 159-165: the table read from the file with its three derived columns
LoadTable ==
    [i \in 1..Len(ReferenceTable) |->
        LET row == ReferenceTable[i]
            q == NearestQ(row.CommonestIsotope)
        IN  [AtomicNumber |-> row.AtomicNumber,
             Symbol |-> row.Symbol,
             CommonestIsotope |-> row.CommonestIsotope,
             NearestQ |-> q,
             ActualQA |-> Div(q * Scale, row.CommonestIsotope * Scale),
             AQ |-> Div(row.CommonestIsotope * Scale, q * Scale)]]

\* .astype(int): truncation toward zero
Trunc(x) == IF x >= 0 THEN x \div Scale ELSE -((-x) \div Scale)

\* lines 167-173 with "elif beta is None" dropped: without an explicit beta,
\* beta is always derived from the call's (energy, e0)
resolve_beta_always_derives(obj, beta, ez, en) ==
    IF beta = None
    THEN LET st == beta_set(obj, PyTuple(<<en, ez>>))
         IN  IF st.result.kind = "raise"
             THEN [obj |-> st.obj, result |-> st.result, beta |-> beta]
             ELSE LET g == beta_get(st.obj)
                  IN  IF g.kind = "raise"
                      THEN [obj |-> st.obj, result |-> g, beta |-> beta]
                      ELSE [obj |-> st.obj, result |-> Return(None),
                            beta |-> g.value]
    ELSE LET st == beta_set(obj, beta)
         IN  [obj |-> st.obj, result |-> st.result, beta |-> beta]

\* lines 167-173: the instance afterwards, how the step ends, and the local
\* variable beta
resolve_beta(obj, beta, ez, en) ==
    IF beta = None /\ obj._beta = None
    THEN LET st == beta_set(obj, PyTuple(<<en, ez>>))
         IN  IF st.result.kind = "raise"
             THEN [obj |-> st.obj, result |-> st.result, beta |-> beta]
             ELSE LET g == beta_get(st.obj)
                  IN  IF g.kind = "raise"
                      THEN [obj |-> st.obj, result |-> g, beta |-> beta]
                      ELSE [obj |-> st.obj, result |-> Return(None),
                            beta |-> g.value]
    ELSE IF beta = None
    THEN LET g == beta_get(obj)
         IN  IF g.kind = "raise"
             THEN [obj |-> obj, result |-> g, beta |-> beta]
             ELSE [obj |-> obj, result |-> Return(None), beta |-> g.value]
    ELSE LET st == beta_set(obj, beta)
         IN  [obj |-> st.obj, result |-> st.result, beta |-> beta]

\* ChargeState.__generate: the instance afterwards, how the call ends, and
\* the local variables beta and df when it ends.  The argument atoms is not
\* read, line 179 has no right-hand side and assigns no column, and the
\* function has no return statement: it returns None.
generate(obj, atoms, beta, ez, en) ==
    LET df == LoadTable
        rb == resolve_beta(obj, beta, ez, en)
    IN  IF rb.result.kind = "raise"
        THEN [obj |-> rb.obj, result |-> rb.result,
              frame |-> [beta |-> rb.beta, df |-> df]]
        ELSE LET mc == mean_charge_state_p(
                           rb.obj,
                           PySeries([i \in 1..Len(df) |-> df[i].AtomicNumber]),
                           PyInt(1))
             IN  IF mc.kind = "raise"
                 THEN [obj |-> rb.obj, result |-> mc,
                       frame |-> [beta |-> rb.beta, df |-> df]]
                 ELSE [obj |-> rb.obj, result |-> Return(None),
                       frame |-> [beta |-> rb.beta,
                                  df |-> [i \in 1..Len(df) |->
                                      [AtomicNumber |-> df[i].AtomicNumber,
                                       Symbol |-> df[i].Symbol,
                                       CommonestIsotope |-> df[i].CommonestIsotope,
                                       NearestQ |-> df[i].NearestQ,
                                       ActualQA |-> df[i].ActualQA,
                                       AQ |-> df[i].AQ,
                                       MeanCharge |-> mc.value.v[i],
                                       MonstProbable |->
                                           Trunc(mc.value.v[i] + Scale \div 2)]]]]

\* ChargeState.dataframe: returns what __generate returns
dataframe(obj, beta, ez, en, atoms) == generate(obj, atoms, beta, ez, en)

\* ------------------------------------------------------------------------
\* The calls a client makes
\* ------------------------------------------------------------------------

\* the longest sequence of calls explored
MaxCalls == 3

\* defaults of the signatures (lines 19-22, 49-52)
DefaultEnergy == PyFloat(42000)
DefaultE0 == PyFloat(9315000)
DefaultCFactor == PyInt(1)
DefaultHalfWidth == 5
AllAtoms == PyStr("all")

AtomicNrArgs == {None, PyInt(53), PyInt(54)}
EnergyArgs == {DefaultEnergy, PyFloat(100000)}
E0Args == {DefaultE0}
TableE0Args == {DefaultE0, PyFloat(0)}
CFactorArgs == {DefaultCFactor}
HalfWidthArgs == {DefaultHalfWidth, 40}
BetaArgs == {None, PyFloat(500), PyInt(1)}
AtomsArgs == {AllAtoms, [t |-> "list", v |-> <<54, 82>>]}
BetaValues ==
    { PyFloat(500), PyInt(1), None, PyStr("0.1"),
      PyTuple(<<DefaultEnergy, DefaultE0>>),
      PyTuple(<<DefaultEnergy, PyFloat(0)>>),
      PyTuple(<<DefaultEnergy, DefaultE0, DefaultCFactor>>),
      PyTuple(<<PyStr("4.2"), DefaultE0>>) }

Call(op, args, out, frame) ==
    [op |-> op, args |-> args, pre |-> Self, result |-> out, frame |-> frame]

\* the call is recorded, and the one before it is kept
Record(call) ==
    /\ ncalls' = ncalls + 1
    /\ history' = IF Len(history) < 2 THEN Append(history, call)
                  ELSE <<history[2], call>>

Store(obj) ==
    /\ atomic_nr' = obj.atomic_nr
    /\ energy' = obj.energy
    /\ c_factor' = obj.c_factor
    /\ e0' = obj.e0
    /\ _beta' = obj._beta

Init ==
    /\ atomic_nr = None
    /\ energy = None
    /\ c_factor = None
    /\ e0 = None
    /\ _beta = None
    /\ history = <<>>
    /\ ncalls = 0

CallDistribution ==
    \E Z \in AtomicNrArgs, en \in EnergyArgs, c \in CFactorArgs,
       ez \in E0Args, hw \in HalfWidthArgs :
        LET r == charge_state_distribution(Self, Z, en, c, ez, hw)
        IN  /\ ncalls < MaxCalls
            /\ Store(r.obj)
            /\ Record(
                   Call("charge_state_distribution",
                        [atomic_nr |-> Z, energy |-> en, c_factor |-> c,
                         e0 |-> ez, dist_onesided_len |-> hw],
                        r.result, None))

CallDataframe ==
    \* energy and e0 are only read when no beta is given: they are varied
    \* in those calls and left at their defaults in the others
    \E beta \in BetaArgs, atoms \in AtomsArgs :
    \E ez \in (IF beta = None THEN TableE0Args ELSE {DefaultE0}),
       en \in (IF beta = None THEN EnergyArgs ELSE {DefaultEnergy}) :
        LET r == dataframe(Self, beta, ez, en, atoms)
        IN  /\ ncalls < MaxCalls
            /\ Store(r.obj)
            /\ Record(
                   Call("dataframe",
                        [beta |-> beta, e0 |-> ez, energy |-> en, atoms |-> atoms],
                        r.result, r.frame))

ReadMeanChargeState ==
    /\ ncalls < MaxCalls
    /\ UNCHANGED fields
    /\ Record(
           Call("mean_charge_state", None, mean_charge_state(Self), None))

ReadStdChargeState ==
    /\ ncalls < MaxCalls
    /\ UNCHANGED fields
    /\ Record(
           Call("std_charge_state", None, std_charge_state(Self), None))

ReadBeta ==
    /\ ncalls < MaxCalls
    /\ UNCHANGED fields
    /\ Record(Call("beta", None, beta_get(Self), None))

SetBeta ==
    \E value \in BetaValues :
        LET r == beta_set(Self, value)
        IN  /\ ncalls < MaxCalls
            /\ Store(r.obj)
            /\ Record(
                   Call("beta.setter", [value |-> value], r.result, None))

Next ==
    \/ CallDistribution
    \/ CallDataframe
    \/ ReadMeanChargeState
    \/ ReadStdChargeState
    \/ ReadBeta
    \/ SetBeta

Spec == Init /\ [][Next]_vars

\* ------------------------------------------------------------------------
\* Properties
\* ------------------------------------------------------------------------

\* the most recent call
Last == history[Len(history)]

IsValueError(r) == r.kind = "raise" /\ r.exc = "ValueError"

\* beta = sqrt(1 - (1 + energy/e0)^-2) for the arguments of a call
DerivedBeta(args) == BetaFromEnergy(args.energy, args.e0)

\* mean_charge(Z, beta, c_factor) as the documentation states it: equation 1,
\* times the factor of equation 3 from Z = 54 on
MeanChargeOf(Z, b, c) ==
    IF Z >= 54 * Scale THEN Mul(EqOne(Z, c, b), EqThreeFactor(Z)) ELSE EqOne(Z, c, b)

\* the mean-charge column of the table for beta b: equation 1 with c = 1
MeanColumnUses(df, b) ==
    \A i \in 1..Len(df) :
        df[i].MeanCharge = EqOne(df[i].AtomicNumber * Scale, Scale, b)

\* C1: a call of charge_state_distribution with an atomic number, on an
\* instance whose beta is unset, sets beta from the call's (energy, e0),
\* raises nothing and returns two sequences of the same length.
C1_DistributionWithZReturns ==
    (/\ ncalls > 0
     /\ Last.op = "charge_state_distribution"
     /\ Last.args.atomic_nr # None
     /\ Last.pre._beta = None)
    => /\ Last.result.kind = "return"
       /\ _beta = DerivedBeta(Last.args).value
       /\ Len(Last.result.value.v[1].v) = Len(Last.result.value.v[2].v)

\* the axis C2 describes for the rounded mean m_int and the half width hw
ClaimedAxis(m_int, hw) ==
    IF hw > m_int
    THEN [i \in 1..(2 * m_int + 1) |-> i - 1]
    ELSE [i \in 1..(2 * hw + 1) |-> m_int - hw + i - 1]

\* C2: charge_state_distribution returns as its axis the integers 0..2*m_int
\* when the half width exceeds the rounded mean m_int, and
\* m_int-hw..m_int+hw otherwise; the axis contains m_int and nothing negative.
C2_AxisAroundRoundedMean ==
    (/\ ncalls > 0
     /\ Last.op = "charge_state_distribution"
     /\ Last.args.atomic_nr # None)
    => LET a == Last.args
           m_int == Round(MeanChargeOf(Num(a.atomic_nr), DerivedBeta(a).value.v,
                                       Num(a.c_factor)))
       IN  /\ Last.result.kind = "return"
           /\ Last.result.value.v[1].v = ClaimedAxis(m_int, a.dist_onesided_len)
           /\ \E i \in 1..Len(Last.result.value.v[1].v) :
                  Last.result.value.v[1].v[i] = m_int
           /\ \A i \in 1..Len(Last.result.value.v[1].v) :
                  Last.result.value.v[1].v[i] >= 0

\* the atomic numbers of the reference rows selected by atoms, in table order
SelectedKeys(atoms) ==
    LET keys == [i \in 1..Len(ReferenceTable) |-> ReferenceTable[i].AtomicNumber]
        Wanted(z) == atoms = AllAtoms \/ \E j \in 1..Len(atoms.v) : atoms.v[j] = z
    IN  SelectSeq(keys, Wanted)

\* C3: dataframe returns a table holding exactly the reference rows selected
\* by atoms ("all": every row), in the reference table's order.
C3_TableHoldsSelectedRows ==
    (/\ ncalls > 0
     /\ Last.op = "dataframe"
     /\ Last.result.kind = "return")
    => /\ Last.result.value.t = "DataFrame"
       /\ [i \in 1..Len(Last.result.value.v) |->
              Last.result.value.v[i].AtomicNumber] = SelectedKeys(Last.args.atoms)

\* C4 as stated: whenever dataframe is called without an explicit beta, the
\* beta of the mean-charge column is the one derived from the call's
\* (energy, e0), and it is the stored beta afterwards.
C4_TableAlwaysDerivesBeta ==
    (/\ ncalls > 0
     /\ Last.op = "dataframe"
     /\ Last.args.beta = None
     /\ Last.result.kind = "return"
     /\ DerivedBeta(Last.args).kind = "return")
    => /\ Last.frame.beta = DerivedBeta(Last.args).value
       /\ _beta = DerivedBeta(Last.args).value
       /\ MeanColumnUses(Last.frame.df, DerivedBeta(Last.args).value.v)

\* C4 as amended: when dataframe is called without an explicit beta, then if
\* no beta is stored the beta of the mean-charge column is the one derived
\* from the call's (energy, e0) and is stored (a failing derivation ends the
\* call and stores no beta); if a beta is stored already, that beta is used
\* and stays stored, and the stored energy and e0 are not touched.
C4_TableDerivesBetaOnlyIfUnset ==
    (/\ ncalls > 0
     /\ Last.op = "dataframe"
     /\ Last.args.beta = None)
    => IF Last.pre._beta = None
       THEN IF DerivedBeta(Last.args).kind = "return"
            THEN /\ Last.result.kind = "return"
                 /\ Last.frame.beta = DerivedBeta(Last.args).value
                 /\ _beta = DerivedBeta(Last.args).value
                 /\ MeanColumnUses(Last.frame.df, DerivedBeta(Last.args).value.v)
            ELSE /\ Last.result = DerivedBeta(Last.args)
                 /\ _beta = None
       ELSE /\ Last.result.kind = "return"
            /\ Last.frame.beta = Last.pre._beta
            /\ _beta = Last.pre._beta
            /\ MeanColumnUses(Last.frame.df, Last.pre._beta.v)
            /\ energy = Last.pre.energy
            /\ e0 = Last.pre.e0

\* a call of dataframe without an explicit beta on an instance whose stored
\* beta differs from the one the call's (energy, e0) give
C4_Witness ==
    /\ ncalls > 0
    /\ Last.op = "dataframe"
    /\ Last.args.beta = None
    /\ Last.pre._beta # None
    /\ DerivedBeta(Last.args).kind = "return"
    /\ Last.pre._beta # DerivedBeta(Last.args).value
    /\ Last.result.kind = "return"

\* C5: dataframe called with an explicit number for beta (int or float) uses
\* that beta for the mean-charge column, raises nothing, and leaves the
\* stored energy and e0 as they were.
C5_ExplicitBetaUsedVerbatim ==
    (/\ ncalls > 0
     /\ Last.op = "dataframe"
     /\ IsNumber(Last.args.beta))
    => /\ Last.result.kind = "return"
       /\ MeanColumnUses(Last.frame.df, Num(Last.args.beta))
       /\ energy = Last.pre.energy
       /\ e0 = Last.pre.e0

\* C6: reading mean_charge_state or std_charge_state raises ValueError while
\* the atomic number is unset, reading beta raises ValueError while beta is
\* unset, and none of them raises it once both have been supplied.
C6_ReadsRaiseOnlyWhenUnset ==
    /\ (/\ ncalls > 0
        /\ Last.op \in {"mean_charge_state", "std_charge_state"})
       => /\ Last.pre.atomic_nr = None => IsValueError(Last.result)
          /\ (Last.pre.atomic_nr # None /\ Last.pre._beta # None)
                 => ~IsValueError(Last.result)
    /\ (/\ ncalls > 0
        /\ Last.op = "beta")
       => (Last.pre._beta = None <=> IsValueError(Last.result))

\* an (energy, e0) pair: a tuple of two numbers
IsEnergyPair(x) ==
    /\ x.t = "tuple"
    /\ Len(x.v) = 2
    /\ IsNumber(x.v[1])
    /\ IsNumber(x.v[2])

\* C7: setting beta to a value that is neither a number nor an (energy, e0)
\* pair raises ValueError and leaves beta, energy and e0 as they were.
C7_BadBetaRejectedWithoutEffect ==
    (/\ ncalls > 0
     /\ Last.op = "beta.setter"
     /\ ~IsNumber(Last.args.value)
     /\ ~IsEnergyPair(Last.args.value))
    => /\ IsValueError(Last.result)
       /\ _beta = Last.pre._beta
       /\ energy = Last.pre.energy
       /\ e0 = Last.pre.e0

\* C8: with the atomic number, c_factor and beta set, mean_charge_state gives
\* equation 1 times the factor of equation 3 from Z = 54 on and plain
\* equation 1 up to Z = 53; std_charge_state gives the form of equation 4
\* from Z = 54 on and the form of equation 2 up to Z = 53.
C8_BranchesAtFiftyFour ==
    (/\ ncalls > 0
     /\ Last.op \in {"mean_charge_state", "std_charge_state"}
     /\ Last.pre.atomic_nr # None
     /\ Last.pre.c_factor # None
     /\ Last.pre._beta # None)
    => LET Z == Num(Last.pre.atomic_nr)
           base == EqOne(Z, Num(Last.pre.c_factor), Last.pre._beta.v)
           corrected == Mul(base, EqThreeFactor(Z))
       IN  IF Last.op = "mean_charge_state"
           THEN Last.result =
                    Return(PyFloat(IF Z >= 54 * Scale THEN corrected ELSE base))
           ELSE IF Z >= 54 * Scale
                THEN Last.result \in {Return(PyFloat(EqFour(base, Z))),
                                      Return(PyFloat(EqFour(corrected, Z)))}
                ELSE Last.result = Return(PyFloat(EqTwo(base, Z)))

\* C9: two calls of charge_state_distribution in a row with the same
\* arguments, the first on a new instance, end the same way (the same
\* return value or the same error).
C9_DistributionTwiceSameOutcome ==
    (/\ Len(history) = 2
     /\ history[1].op = "charge_state_distribution"
     /\ history[2].op = "charge_state_distribution"
     /\ history[1].pre = Fresh
     /\ history[2].args = history[1].args)
    => history[2].result = history[1].result

\* the second of two such calls, with an atomic number, has been made
C9_Witness ==
    /\ ncalls = 2
    /\ Len(history) = 2
    /\ history[1].op = "charge_state_distribution"
    /\ history[2].op = "charge_state_distribution"
    /\ history[1].pre = Fresh
    /\ history[2].args = history[1].args
    /\ history[2].args.atomic_nr # None

\* C10: for Z >= 54, std_charge_state evaluates equation 4 on the value
\* mean_charge_state returns for the same instance: equation 1 times the
\* factor of equation 3.
C10_StdUsesCorrectedMean ==
    (/\ ncalls > 0
     /\ Last.op = "std_charge_state"
     /\ Last.pre.atomic_nr # None
     /\ Num(Last.pre.atomic_nr) >= 54 * Scale
     /\ Last.pre.c_factor # None
     /\ Last.pre._beta # None)
    => LET Z == Num(Last.pre.atomic_nr)
           m == MeanChargeOf(Z, Last.pre._beta.v, Num(Last.pre.c_factor))
       IN  /\ mean_charge_state(Last.pre) = Return(PyFloat(m))
           /\ Last.result = Return(PyFloat(EqFour(m, Z)))

====
